---- MODULE Spec2Model ----
(***************************************************************************)
(* A distance-vector routing node: prince.Server with its RoutingTable,     *)
(* the update command (sultan.py), the packets and crash commands and the  *)
(* PacketManager (bryson.py).                                              *)
(*                                                                         *)
(* Server ids are opaque strings in the source; here they are the numbers  *)
(* 1..MaxId.  A cost is float in the source: a finite number or            *)
(* float('inf'); here it is a record, Fin(n) or INF.  A command's text     *)
(* argument (the cost of update, the mode of packets) is a sequence of     *)
(* one-character strings, so that strip(), lower() and int() are computed. *)
(***************************************************************************)
EXTENDS Integers, Sequences, FiniteSets, TLC

\* ------------------------------------------------------------------ bounds
\* Server ids range over 1..MaxId.
MaxId == 3
\* record_packet is not taken once the counter, or the number of calls made
\* by the receive thread, has reached MaxPackets.
MaxPackets == 3

IDs == 1..MaxId

\* The id of the node under study.  Ids are opaque and the code never orders
\* them, so one choice of the local id stands for all.
LocalIds == {1}

\* Python's None (next_hop of an unreachable destination, a closed socket's id).
None == 0

\* ------------------------------------------------------------------- costs
INF == [inf |-> TRUE, val |-> 0]
Fin(n) == [inf |-> FALSE, val |-> n]

\* Link costs a topology file of the model configures (positive integers).
InitCosts == {2, 5}

\* The cost arguments the operator types in an update command.
CostStrs ==
  { <<"5">>, <<"0">>, <<"-", "5">>, <<"i", "n", "f">>,
    <<" ", "I", "N", "F", " ">>, <<"5", ".", "5">>, <<"a", "b", "c">> }

\* --------------------------------------------------------- text operations
Uppers == <<"A","B","C","D","E","F","G","H","I","J","K","L","M",
            "N","O","P","Q","R","S","T","U","V","W","X","Y","Z">>
Lowers == <<"a","b","c","d","e","f","g","h","i","j","k","l","m",
            "n","o","p","q","r","s","t","u","v","w","x","y","z">>
Digits == <<"0","1","2","3","4","5","6","7","8","9">>

IsSpace(c) == c \in {" ", "\t", "\n"}
IsDigit(c) == \E i \in 1..Len(Digits) : Digits[i] = c
DigitVal(c) == (CHOOSE i \in 1..Len(Digits) : Digits[i] = c) - 1

LowerChar(c) ==
  IF \E i \in 1..Len(Uppers) : Uppers[i] = c
  THEN Lowers[CHOOSE i \in 1..Len(Uppers) : Uppers[i] = c]
  ELSE c

\* str.lower()
Lower(s) == [i \in 1..Len(s) |-> LowerChar(s[i])]

RECURSIVE LStrip(_)
LStrip(s) == IF s # <<>> /\ IsSpace(Head(s)) THEN LStrip(Tail(s)) ELSE s

RECURSIVE RStrip(_)
RStrip(s) ==
  IF s # <<>> /\ IsSpace(s[Len(s)]) THEN RStrip(SubSeq(s, 1, Len(s) - 1)) ELSE s

\* str.strip()
Strip(s) == RStrip(LStrip(s))

\* The digits of an int() literal after its sign: digits, single underscores
\* only between digits.
IntBodyOk(b) ==
  /\ b # <<>>
  /\ IsDigit(b[1]) /\ IsDigit(b[Len(b)])
  /\ \A i \in 1..Len(b) : IsDigit(b[i]) \/ b[i] = "_"
  /\ \A i \in 1..(Len(b) - 1) : ~(b[i] = "_" /\ b[i + 1] = "_")

RECURSIVE IntBodyVal(_, _)
IntBodyVal(b, acc) ==
  IF b = <<>> THEN acc
  ELSE IF Head(b) = "_" THEN IntBodyVal(Tail(b), acc)
  ELSE IntBodyVal(Tail(b), 10 * acc + DigitVal(Head(b)))

\* int(text): [ok |-> FALSE] stands for ValueError.
PyInt(text) ==
  LET t == Strip(text)
      signed == t # <<>> /\ Head(t) \in {"+", "-"}
      body == IF signed THEN Tail(t) ELSE t
  IN IF IntBodyOk(body)
     THEN [ok |-> TRUE,
           val |-> IF signed /\ Head(t) = "-" THEN 0 - IntBodyVal(body, 0)
                   ELSE IntBodyVal(body, 0)]
     ELSE [ok |-> FALSE, val |-> 0]

\* parse_cost without lower(): only the spelling "inf" means infinity.
parse_cost_NoLower(cost_str) ==
  LET s == Strip(cost_str) IN
  IF s = <<"i", "n", "f">>
  THEN [ok |-> TRUE, cost |-> INF]
  ELSE LET n == PyInt(s) IN
       IF n.ok THEN [ok |-> TRUE, cost |-> Fin(n.val)]
       ELSE [ok |-> FALSE, cost |-> INF]

\* sultan.parse_cost: [ok |-> FALSE] stands for the ValueError it raises.
parse_cost(cost_str) ==
  LET s == Strip(cost_str) IN
  IF Lower(s) = <<"i", "n", "f">>
  THEN [ok |-> TRUE, cost |-> INF]
  ELSE LET n == PyInt(s) IN
       IF n.ok THEN [ok |-> TRUE, cost |-> Fin(n.val)]
       ELSE [ok |-> FALSE, cost |-> INF]

\* parse_cost on each argument the operator types.
ParsedCost == [s \in CostStrs |-> parse_cost(s)]

\* ------------------------------------------------------------------- state
VARIABLES
  server_instance,  \* main's server_instance: "None" or "Server"
  server_id,        \* Server.server_id (None before construction)
  servers,          \* Server.servers: id -> [ip, port]
  neighbors,        \* Server.neighbors: id -> [ip, port, cost]
  table,            \* Server.routing_table.table: id -> [cost, next_hop]
  socket,           \* Server.socket: "None", "bound", or "unbound" (bind failed)
  crashed,          \* the attribute handle_crash_command sets on the server
  packet_manager,   \* server.packet_manager: "None" or "PacketManager"
  packets_received_since_last,  \* PacketManager._packets_received_since_last
  packet_logging_enabled,       \* PacketManager._packet_logging_enabled
  last,             \* the last operation handled and what it returned
  rt,               \* observer of update round trips (cost 5, inf, 5 on one link)
  recorded,         \* observer: record_packet calls since the last count query
  rx_pc,            \* receive loop inside record_packet: "idle" or "read"
  rx_value,         \* the counter value record_packet has read
  cmd_pc,           \* command surface inside get_and_reset_count: "idle" or "read"
  cmd_count,        \* the local count of get_and_reset_count
  completed,        \* observer: record_packet calls that have returned
  returned_sum      \* observer: sum of the values get_and_reset_count returned

routing == <<server_id, servers, neighbors, table>>
node == <<socket, crashed>>
packets == <<packet_manager, packets_received_since_last, packet_logging_enabled>>

threads == <<rx_pc, rx_value, cmd_pc, cmd_count, completed, returned_sum>>

vars == <<server_instance, routing, node, packets, last, rt, recorded, threads>>

\* The address a topology file gives server s (an opaque token per server).
Addr(s) == [ip |-> s, port |-> s]

Put(d, k, v) == [x \in (DOMAIN d) \cup {k} |-> IF x = k THEN v ELSE d[x]]

Empty == [k \in {} |-> 0]

\* The parsed topologies: servers is any set of ids with their addresses,
\* neighbors are servers other than this one, each with a configured cost.
Topologies ==
  { [server_id |-> sid, servers |-> [k \in S |-> Addr(k)],
     neighbors |-> [n \in N |-> [ip |-> n, port |-> n, cost |-> Fin(c[n])]]] :
      sid \in LocalIds, S \in SUBSET IDs, N \in SUBSET IDs, c \in [IDs -> InitCosts] }

ValidTopology(t) ==
  /\ DOMAIN t.neighbors \subseteq DOMAIN t.servers
  /\ t.server_id \notin DOMAIN t.neighbors

\* RoutingTable.__init__ with its last two loops in the other order: the
\* servers are entered as unreachable first, and a neighbor is entered only
\* when the table does not hold it yet.
RoutingTableInit_ServersFirst(sid, srv, nbrs) ==
  LET t0 == Put(Empty, sid, [cost |-> Fin(0), next_hop |-> sid])
      t1 == [d \in (DOMAIN t0) \cup (DOMAIN srv) |->
               IF d \in DOMAIN t0 THEN t0[d]
               ELSE [cost |-> INF, next_hop |-> None]]
  IN [d \in (DOMAIN t1) \cup (DOMAIN nbrs) |->
        IF d \in DOMAIN t1 THEN t1[d]
        ELSE [cost |-> nbrs[d].cost, next_hop |-> d]]

\* RoutingTable.__init__
RoutingTableInit(sid, srv, nbrs) ==
  LET t0 == Put(Empty, sid, [cost |-> Fin(0), next_hop |-> sid])
      t1 == [d \in (DOMAIN t0) \cup (DOMAIN nbrs) |->
               IF d \in DOMAIN nbrs
               THEN [cost |-> nbrs[d].cost, next_hop |-> d]
               ELSE t0[d]]
  IN [d \in (DOMAIN t1) \cup (DOMAIN srv) |->
        IF d \in DOMAIN t1 THEN t1[d]
        ELSE [cost |-> INF, next_hop |-> None]]

\* RoutingTable.update_entry
update_entry(tbl, destination_id, cost, next_hop) ==
  Put(tbl, destination_id, [cost |-> cost, next_hop |-> next_hop])

RtIdle == [stage |-> 0]

Init ==
  /\ server_instance = "None"
  /\ server_id = None
  /\ servers = Empty
  /\ neighbors = Empty
  /\ table = Empty
  /\ socket = "None"
  /\ crashed = FALSE
  /\ packet_manager = "None"
  /\ packets_received_since_last = 0
  /\ packet_logging_enabled = FALSE
  /\ last = [cmd |-> "none"]
  /\ rt = RtIdle
  /\ recorded = 0
  /\ rx_pc = "idle"
  /\ rx_value = 0
  /\ cmd_pc = "idle"
  /\ cmd_count = 0
  /\ completed = 0
  /\ returned_sum = 0

\* Server.__init__ on a parsed topology.
ServerInit ==
  /\ server_instance = "None"
  /\ \E t \in Topologies :
       /\ ValidTopology(t)
       /\ server_id' = t.server_id
       /\ servers' = t.servers
       /\ neighbors' = t.neighbors
       /\ table' = RoutingTableInit(t.server_id, t.servers, t.neighbors)
  /\ server_instance' = "Server"
  /\ last' = [cmd |-> "server"]
  /\ UNCHANGED <<node, packets, rt, recorded>>
  /\ UNCHANGED threads

\* Steps 5 and 6 keeping the lower of the entry's cost and the new cost.
apply_link_update_KeepLower(all_servers, nbrs, tbl, neighbor_id, new_cost) ==
  [neighbors |->
     IF neighbor_id \notin DOMAIN nbrs
     THEN Put(nbrs, neighbor_id,
              [ip |-> all_servers[neighbor_id].ip,
               port |-> all_servers[neighbor_id].port,
               cost |-> new_cost])
     ELSE [nbrs EXCEPT ![neighbor_id].cost = new_cost],
   table |->
     IF new_cost = INF
     THEN update_entry(tbl, neighbor_id, INF, None)
     ELSE IF /\ neighbor_id \in DOMAIN tbl
             /\ ~tbl[neighbor_id].cost.inf
             /\ tbl[neighbor_id].cost.val < new_cost.val
          THEN tbl
          ELSE update_entry(tbl, neighbor_id, new_cost, neighbor_id)]

\* Steps 5 and 6 where a link set to infinity leaves the routing entry alone.
apply_link_update_InfLinkOnly(all_servers, nbrs, tbl, neighbor_id, new_cost) ==
  [neighbors |->
     IF neighbor_id \notin DOMAIN nbrs
     THEN Put(nbrs, neighbor_id,
              [ip |-> all_servers[neighbor_id].ip,
               port |-> all_servers[neighbor_id].port,
               cost |-> new_cost])
     ELSE [nbrs EXCEPT ![neighbor_id].cost = new_cost],
   table |->
     IF new_cost = INF
     THEN tbl
     ELSE update_entry(tbl, neighbor_id, new_cost, neighbor_id)]

\* sultan.handle_update_command, steps 5 and 6: set the link cost (creating
\* the link of a new neighbor) and the routing entry of the neighbor.
apply_link_update(all_servers, nbrs, tbl, neighbor_id, new_cost) ==
  [neighbors |->
     IF neighbor_id \notin DOMAIN nbrs
     THEN Put(nbrs, neighbor_id,
              [ip |-> all_servers[neighbor_id].ip,
               port |-> all_servers[neighbor_id].port,
               cost |-> new_cost])
     ELSE [nbrs EXCEPT ![neighbor_id].cost = new_cost],
   table |->
     IF new_cost = INF
     THEN update_entry(tbl, neighbor_id, INF, None)
     ELSE update_entry(tbl, neighbor_id, new_cost, neighbor_id)]

\* handle_update_command without step 2, the test that this node is an endpoint.
handle_update_command_NoEndpointTest(local_id, all_servers, nbrs, tbl, server_id1, server_id2, cost_str) ==
  LET parsed == ParsedCost[cost_str]
      new_cost == parsed.cost
      neighbor_id == IF local_id = server_id1 THEN server_id2 ELSE server_id1
  IN
  IF ~parsed.ok
  THEN [status |-> "INVALID COST", neighbors |-> nbrs, table |-> tbl]
  ELSE IF neighbor_id \notin DOMAIN all_servers
  THEN [status |-> "UNKNOWN SERVER", neighbors |-> nbrs, table |-> tbl]
  ELSE LET u == apply_link_update(all_servers, nbrs, tbl, neighbor_id, new_cost)
       IN [status |-> "SUCCESS", neighbors |-> u.neighbors, table |-> u.table]

\* handle_update_command writing the routing entry before step 4, the test
\* that the neighbor is a known server.
handle_update_command_LateUnknownTest(local_id, all_servers, nbrs, tbl, server_id1, server_id2, cost_str) ==
  LET parsed == ParsedCost[cost_str]
      new_cost == parsed.cost
      neighbor_id == IF local_id = server_id1 THEN server_id2 ELSE server_id1
  IN
  IF ~parsed.ok
  THEN [status |-> "INVALID COST", neighbors |-> nbrs, table |-> tbl]
  ELSE IF local_id # server_id1 /\ local_id # server_id2
  THEN [status |-> "SUCCESS", neighbors |-> nbrs, table |-> tbl]
  ELSE IF neighbor_id \notin DOMAIN all_servers
  THEN [status |-> "UNKNOWN SERVER", neighbors |-> nbrs,
        table |-> update_entry(tbl, neighbor_id, new_cost,
                               IF new_cost = INF THEN None ELSE neighbor_id)]
  ELSE LET u == apply_link_update(all_servers, nbrs, tbl, neighbor_id, new_cost)
       IN [status |-> "SUCCESS", neighbors |-> u.neighbors, table |-> u.table]

\* sultan.handle_update_command on the node in state (local_id, all_servers,
\* nbrs, tbl): the status it returns and the neighbors and table it leaves.
handle_update_command(local_id, all_servers, nbrs, tbl, server_id1, server_id2, cost_str) ==
  LET parsed == ParsedCost[cost_str]
      new_cost == parsed.cost
      neighbor_id == IF local_id = server_id1 THEN server_id2 ELSE server_id1
  IN
  IF ~parsed.ok
  THEN [status |-> "INVALID COST", neighbors |-> nbrs, table |-> tbl]
  ELSE IF local_id # server_id1 /\ local_id # server_id2
  THEN [status |-> "SUCCESS", neighbors |-> nbrs, table |-> tbl]
  ELSE IF neighbor_id \notin DOMAIN all_servers
  THEN [status |-> "UNKNOWN SERVER", neighbors |-> nbrs, table |-> tbl]
  ELSE LET u == apply_link_update(all_servers, nbrs, tbl, neighbor_id, new_cost)
       IN [status |-> "SUCCESS", neighbors |-> u.neighbors, table |-> u.table]

\* The observer of round trips: stage k after the k-th of three successive
\* successful updates of one link at this endpoint, with costs 5, inf, 5;
\* first is the state the first of them left.
RtNext(id1, id2, cost_str, r) ==
  LET parsed == ParsedCost[cost_str]
      nbr == IF server_id = id1 THEN id2 ELSE id1
      applied == /\ r.status = "SUCCESS"
                 /\ server_id \in {id1, id2}
      start == [stage |-> 1, nbr |-> nbr,
                first |-> [neighbors |-> r.neighbors, table |-> r.table]]
  IN
  IF ~applied THEN RtIdle
  ELSE IF rt.stage = 1 /\ rt.nbr = nbr /\ parsed.cost = INF
  THEN [rt EXCEPT !.stage = 2]
  ELSE IF rt.stage = 2 /\ rt.nbr = nbr /\ parsed.cost = Fin(5)
  THEN [rt EXCEPT !.stage = 3]
  ELSE IF parsed.cost = Fin(5) THEN start
  ELSE RtIdle

\* The operator types: update <server-ID1> <server-ID2> <Link Cost>
UpdateCmd ==
  /\ server_instance = "Server"
  /\ \E id1 \in IDs, id2 \in IDs, cost_str \in CostStrs :
       LET r == handle_update_command(server_id, servers, neighbors, table,
                                      id1, id2, cost_str)
       IN /\ neighbors' = r.neighbors
          /\ table' = r.table
          /\ last' = [cmd |-> "update", id1 |-> id1, id2 |-> id2,
                      cost_str |-> cost_str, status |-> r.status]
          /\ rt' = RtNext(id1, id2, cost_str, r)
  /\ UNCHANGED <<server_instance, server_id, servers, node, packets, recorded>>
  /\ UNCHANGED threads

\* ------------------------------------------------------- socket and crash
\* Server.start: socket() may fail (the socket attribute is left as it was),
\* bind() may fail (the attribute holds the new, unbound socket), or both
\* succeed.  It returns True only in the last case.
start_outcomes(sock) == {[socket |-> "bound", ok |-> TRUE],
                         [socket |-> "unbound", ok |-> FALSE],
                         [socket |-> sock, ok |-> FALSE]}

Start ==
  /\ server_instance = "Server"
  /\ \E o \in start_outcomes(socket) :
       /\ socket' = o.socket
       /\ last' = [cmd |-> "start", ok |-> o.ok]
  /\ UNCHANGED <<server_instance, routing, crashed, packets, rt, recorded>>
  /\ UNCHANGED threads

\* Server.stop: the socket it leaves (close() is taken to succeed).
stop(sock) == IF sock # "None" THEN "None" ELSE sock

Stop ==
  /\ server_instance = "Server"
  /\ socket' = stop(socket)
  /\ last' = [cmd |-> "stop"]
  /\ UNCHANGED <<server_instance, routing, crashed, packets, rt, recorded>>
  /\ UNCHANGED threads

\* bryson.handle_crash_command: sets crashed, then calls server.stop().
CrashCmd ==
  /\ server_instance = "Server"
  /\ crashed' = TRUE
  /\ socket' = stop(socket)
  /\ last' = [cmd |-> "crash", status |-> "crash SUCCESS"]
  /\ UNCHANGED <<server_instance, routing, packets, rt, recorded>>
  /\ UNCHANGED threads

\* ---------------------------------------------------------- PacketManager
\* The arguments of a packets command: none, one mode, or more.
PacketArgs ==
  { <<>>, << <<"o", "n">> >>, << <<"o", "f", "f">> >>,
    << <<" ", "O", "n">> >>, << <<"x">> >>,
    << <<"o", "n">>, <<"o", "f", "f">> >> }

\* PacketManager.__init__, attached to the server as server.packet_manager
\* (prince.Server creates none itself).
PacketManagerInit ==
  /\ server_instance = "Server"
  /\ packet_manager = "None"
  /\ packet_manager' = "PacketManager"
  /\ packets_received_since_last' = 0
  /\ packet_logging_enabled' = FALSE
  /\ recorded' = 0
  /\ last' = [cmd |-> "PacketManager"]
  /\ UNCHANGED <<server_instance, routing, node, rt>>
  /\ UNCHANGED threads

\* PacketManager.record_packet: the counter it leaves (the log line it may
\* print is output only).
record_packet(count) == count + 1

RecordPacket ==
  /\ packet_manager = "PacketManager"
  /\ packets_received_since_last < MaxPackets
  /\ packets_received_since_last' = record_packet(packets_received_since_last)
  /\ recorded' = recorded + 1
  /\ last' = [cmd |-> "record_packet"]
  /\ UNCHANGED <<server_instance, routing, node, packet_manager,
                 packet_logging_enabled, rt>>
  /\ UNCHANGED threads

\* get_and_reset_count that returns the counter and does not zero it.
get_and_reset_count_NoReset(count) ==
  [count |-> count, packets_received_since_last |-> count]

\* PacketManager.get_and_reset_count: what it returns and the counter it leaves.
get_and_reset_count(count) == [count |-> count, packets_received_since_last |-> 0]

\* bryson.handle_packets_command: the status it returns (count is the number
\* in "packets SUCCESS <count>"), and the manager's fields it leaves.
handle_packets_command(manager, count, logging, args) ==
  LET same == [status |-> "", count |-> 0,
               packets_received_since_last |-> count,
               packet_logging_enabled |-> logging]
      mode == Lower(Strip(args[1]))
  IN
  IF manager = "None"
  THEN [same EXCEPT !.status = "packets SERVER NOT INITIALIZED"]
  ELSE IF Len(args) = 1
  THEN IF mode = <<"o", "n">>
       THEN [same EXCEPT !.status = "packets on SUCCESS",
                         !.packet_logging_enabled = TRUE]
       ELSE IF mode = <<"o", "f", "f">>
       THEN [same EXCEPT !.status = "packets off SUCCESS",
                         !.packet_logging_enabled = FALSE]
       ELSE [same EXCEPT !.status = "packets INVALID ARG"]
  ELSE LET g == get_and_reset_count(count)
       IN [same EXCEPT !.status = "packets SUCCESS", !.count = g.count,
             !.packets_received_since_last = g.packets_received_since_last]

\* The operator types: packets [on|off]
PacketsCmd ==
  /\ server_instance = "Server"
  /\ \E args \in PacketArgs :
       LET r == handle_packets_command(packet_manager, packets_received_since_last,
                                       packet_logging_enabled, args)
       IN /\ packets_received_since_last' = r.packets_received_since_last
          /\ packet_logging_enabled' = r.packet_logging_enabled
          /\ last' = [cmd |-> "packets", args |-> args,
                      status |-> r.status, count |-> r.count]
          /\ recorded' = IF r.status = "packets SUCCESS" THEN 0 ELSE recorded
  /\ UNCHANGED <<server_instance, routing, node, packet_manager, rt>>
  /\ UNCHANGED threads

\* --------------------------------------------------------- specifications
\* The whole node: every operation.
Next ==
  \/ ServerInit
  \/ UpdateCmd
  \/ Start
  \/ Stop
  \/ CrashCmd
  \/ PacketManagerInit
  \/ RecordPacket
  \/ PacketsCmd

Spec == Init /\ [][Next]_vars

\* The routing state under update commands alone.
NextRouting ==
  \/ ServerInit
  \/ UpdateCmd

SpecRouting == Init /\ [][NextRouting]_vars

\* The packet manager under traffic and packets commands alone.
NextPackets ==
  \/ ServerInit
  \/ PacketManagerInit
  \/ RecordPacket
  \/ PacketsCmd

SpecPackets == Init /\ [][NextPackets]_vars

\* The node as prince.Server builds it (no packet manager attached) under
\* its operations: start, stop, update, packets, crash.
NextNode ==
  \/ ServerInit
  \/ Start
  \/ Stop
  \/ UpdateCmd
  \/ PacketsCmd
  \/ CrashCmd

SpecNode == Init /\ [][NextNode]_vars

\* ------------------------------------------------ unsynchronised counter
\* The receive loop and the command surface share the PacketManager with no
\* lock.  record_packet's `+= 1` is a read of the counter, then a write of
\* the value read plus one; get_and_reset_count reads the counter into
\* count, then writes 0 and returns count.  Each thread runs one call at a
\* time; the steps of the two threads interleave freely.
RecordRead ==
  /\ packet_manager = "PacketManager"
  /\ rx_pc = "idle"
  /\ completed < MaxPackets
  /\ rx_value' = packets_received_since_last
  /\ rx_pc' = "read"
  /\ UNCHANGED <<server_instance, routing, node, packets, last, rt, recorded,
                 cmd_pc, cmd_count, completed, returned_sum>>

RecordWrite ==
  /\ rx_pc = "read"
  /\ packets_received_since_last' = record_packet(rx_value)
  /\ rx_pc' = "idle"
  /\ completed' = completed + 1
  /\ UNCHANGED <<server_instance, routing, node, packet_manager,
                 packet_logging_enabled, last, rt, recorded,
                 rx_value, cmd_pc, cmd_count, returned_sum>>

GetRead ==
  /\ packet_manager = "PacketManager"
  /\ cmd_pc = "idle"
  /\ cmd_count' = get_and_reset_count(packets_received_since_last).count
  /\ cmd_pc' = "read"
  /\ UNCHANGED <<server_instance, routing, node, packets, last, rt, recorded,
                 rx_pc, rx_value, completed, returned_sum>>

GetResetReturn ==
  /\ cmd_pc = "read"
  /\ packets_received_since_last' =
       get_and_reset_count(cmd_count).packets_received_since_last
  /\ returned_sum' = returned_sum + cmd_count
  /\ cmd_pc' = "idle"
  /\ UNCHANGED <<server_instance, routing, node, packet_manager,
                 packet_logging_enabled, last, rt, recorded,
                 rx_pc, rx_value, cmd_count, completed>>

\* The packet manager under the two threads.
NextConcurrent ==
  \/ ServerInit
  \/ PacketManagerInit
  \/ RecordRead
  \/ RecordWrite
  \/ GetRead
  \/ GetResetReturn

SpecConcurrent == Init /\ [][NextConcurrent]_vars

\* ------------------------------------------------------------- properties
\* The cost arguments by kind, as the operator reads them: integers, the
\* word inf in any case, and numbers (the integers and the decimal 5.5).
IntegerTexts == { <<"5">>, <<"0">>, <<"-", "5">> }
InfTexts == { <<"i", "n", "f">>, <<" ", "I", "N", "F", " ">> }
NumberTexts == IntegerTexts \cup { <<"5", ".", "5">> }

NonNegative(c) == c.inf \/ c.val >= 0

\* The last operation was an update command whose ids include this node's.
LastAtEndpoint == last.cmd = "update" /\ server_id \in {last.id1, last.id2}

\* The neighbor an update command at an endpoint is about.
LastOther == IF server_id = last.id1 THEN last.id2 ELSE last.id1

\* C1: in every state reached from initialisation by update commands, every
\* routing entry has next_hop None exactly when its cost is infinity, and
\* cost 0 exactly when its destination is this node.
C1_EntryInvariant ==
  \A d \in DOMAIN table :
    /\ (table[d].next_hop = None) <=> (table[d].cost = INF)
    /\ (table[d].cost = Fin(0)) <=> (d = server_id)

\* C2: right after construction the table holds one entry per known server:
\* (0, self) for this node, (configured link cost, the neighbor) for each
\* neighbor, (infinity, None) for every other server.
C2_InitialTable ==
  last.cmd = "server" =>
    /\ DOMAIN table = (DOMAIN servers) \cup {server_id}
    /\ table[server_id] = [cost |-> Fin(0), next_hop |-> server_id]
    /\ \A n \in DOMAIN neighbors :
         table[n] = [cost |-> neighbors[n].cost, next_hop |-> n]
    /\ \A d \in (DOMAIN table) \ ((DOMAIN neighbors) \cup {server_id}) :
         table[d] = [cost |-> INF, next_hop |-> None]

C2_Witness ==
  /\ last.cmd = "server"
  /\ neighbors # Empty
  /\ \E d \in DOMAIN servers : d # server_id /\ d \notin DOMAIN neighbors

\* C3 as stated: an update command on a node that is neither id1 nor id2
\* returns SUCCESS and leaves table and neighbors unchanged, whatever the
\* cost argument.
C3_AnyCostSucceeds ==
  [][(last'.cmd = "update" /\ server_id \notin {last'.id1, last'.id2}) =>
       /\ last'.status = "SUCCESS"
       /\ UNCHANGED <<table, neighbors>>]_vars

\* C3 amended: an update command on a node that is neither id1 nor id2 leaves
\* table and neighbors unchanged whatever the cost argument; it returns
\* SUCCESS when the cost is an integer or inf, and INVALID COST otherwise.
C3_NonEndpoint ==
  [][(last'.cmd = "update" /\ server_id \notin {last'.id1, last'.id2}) =>
       /\ UNCHANGED <<table, neighbors>>
       /\ last'.status = IF last'.cost_str \in IntegerTexts \cup InfTexts
                         THEN "SUCCESS" ELSE "INVALID COST"]_vars

C3_Witness ==
  /\ last.cmd = "update"
  /\ server_id \notin {last.id1, last.id2}
  /\ last.status = "SUCCESS"
  /\ neighbors # Empty

\* C4: after updates of one link at an endpoint with cost 5, then inf, then
\* 5, the neighbor's entry is (5, neighbor) and its link cost 5, as after
\* the first update; every other entry is unchanged throughout.
C4_RoundTrip ==
  /\ rt.stage \in {2, 3} =>
       /\ DOMAIN table = DOMAIN rt.first.table
       /\ \A d \in (DOMAIN table) \ {rt.nbr} : table[d] = rt.first.table[d]
  /\ rt.stage \in {1, 3} =>
       /\ table[rt.nbr] = [cost |-> Fin(5), next_hop |-> rt.nbr]
       /\ neighbors[rt.nbr].cost = Fin(5)
  /\ rt.stage = 3 =>
       /\ table = rt.first.table
       /\ neighbors = rt.first.neighbors

C4_Witness ==
  /\ rt.stage = 3
  /\ rt.nbr # server_id
  /\ \E d \in DOMAIN neighbors : d # rt.nbr

C6_NumbersAccepted ==
  [][last'.cmd = "update" =>
       /\ last'.cost_str \notin NumberTexts \cup InfTexts =>
            /\ last'.status = "INVALID COST"
            /\ UNCHANGED <<table, neighbors>>
       /\ last'.cost_str \in NumberTexts \cup InfTexts =>
            last'.status # "INVALID COST"]_vars

\* C6 amended: a cost argument that is neither an integer nor inf (any case)
\* returns INVALID COST and changes nothing, whatever the ids; a cost
\* argument that is an integer or inf is not reported as INVALID COST.
C6_InvalidCost ==
  [][last'.cmd = "update" =>
       /\ last'.cost_str \notin IntegerTexts \cup InfTexts =>
            /\ last'.status = "INVALID COST"
            /\ UNCHANGED <<table, neighbors>>
       /\ last'.cost_str \in IntegerTexts \cup InfTexts =>
            last'.status # "INVALID COST"]_vars

C6_Witness ==
  /\ LastAtEndpoint
  /\ LastOther \in DOMAIN neighbors
  /\ last.cost_str = <<"5", ".", "5">>
  /\ last.status = "INVALID COST"

\* C7: after any update commands, every link cost and every routing cost is
\* a non-negative number or infinity.
C7_NonNegativeCosts ==
  /\ \A n \in DOMAIN neighbors : NonNegative(neighbors[n].cost)
  /\ \A d \in DOMAIN table : NonNegative(table[d].cost)

\* C8: a packets command that queries the count (no argument) returns the
\* number of record_packet calls since the previous query, or since the
\* manager was created, and zeroes the counter; a second query with no
\* record_packet in between returns 0; packets on / off and any other
\* one-argument form leave the counter as it is.  A command with two or
\* more arguments takes the query path of the handler and is a query here.
C8_ResetOnRead ==
  [][(last'.cmd = "packets" /\ packet_manager = "PacketManager") =>
       /\ Len(last'.args) # 1 =>
            /\ last'.status = "packets SUCCESS"
            /\ last'.count = recorded
            /\ packets_received_since_last' = 0
       /\ (/\ Len(last'.args) # 1
           /\ last.cmd = "packets"
           /\ last.status = "packets SUCCESS") => last'.count = 0
       /\ Len(last'.args) = 1 =>
            /\ packets_received_since_last' = packets_received_since_last
            /\ last'.status # "packets SUCCESS"]_vars

C8_Witness ==
  /\ last.cmd = "packets"
  /\ last.args = <<>>
  /\ last.status = "packets SUCCESS"
  /\ last.count = 2
  /\ packets_received_since_last = 0

\* C9: once crash has been handled the node is crashed and has no socket,
\* in every state that start, stop, update, packets and crash reach.
C9_CrashTerminal == crashed => socket = "None"

\* C10: for every neighbor n of the link set, the routing entry of n has the
\* cost of the link, with next hop n when the cost is finite and None when
\* it is infinity.
C10_LinkTableConsistent ==
  \A n \in DOMAIN neighbors :
    /\ n \in DOMAIN table
    /\ table[n].cost = neighbors[n].cost
    /\ table[n].next_hop = IF neighbors[n].cost = INF THEN None ELSE n

C10_Witness ==
  /\ LastAtEndpoint
  /\ last.status = "SUCCESS"
  /\ last.cost_str \in InfTexts
  /\ neighbors[LastOther].cost = INF
  /\ table[LastOther] = [cost |-> INF, next_hop |-> None]

\* C11: under every interleaving of record_packet and get_and_reset_count,
\* whenever no call is in progress, the values get_and_reset_count has
\* returned plus the counter add up to the number of record_packet calls
\* that have completed.
C11_NoCountLost ==
  (rx_pc = "idle" /\ cmd_pc = "idle") =>
    returned_sum + packets_received_since_last = completed
====
